---- MODULE Spec2Model ----
(***************************************************************************)
(* Model of modules/scripts.py: the script registry (scripts_data), its    *)
(* discovery (load_scripts), the per-surface ScriptRunner (setup_ui, the   *)
(* select_script closure it registers, and run).                           *)
(***************************************************************************)
EXTENDS Integers, Sequences, FiniteSets, TLC

VARIABLES
    basedir,        \* the scripts directory on disk: [exists, entries]
    scripts_data,   \* module-level registry: sequence of <<script_class, path>>
    loaded,         \* TRUE once the start-up call of load_scripts has returned
    runners,        \* scripts_txt2img / scripts_img2img: [scripts, inputs, built]
    ret             \* outcome of the last call into the module

vars == <<basedir, scripts_data, loaded, runners, ret>>

-----------------------------------------------------------------------------
(* Bounds *)

MaxFiles == 2          \* files in the directory, sessions specification
MaxDirFiles == 2       \* entries in the directory, discovery specification
MaxBindings == 2       \* top-level bindings of one file
MaxBuilds == 3         \* setup_ui calls the host makes, over both runners
MaxSelector == 2       \* selector values range over -MaxSelector..MaxSelector

-----------------------------------------------------------------------------
(* Python values *)

None == -1             \* Script.args_from / args_to before setup_ui assigns them

PyNone == [t |-> "None"]
PyBool(b) == [t |-> "bool", v |-> b]
PyStr(s) == [t |-> "str", v |-> s]
PyList(l) == [t |-> "list", v |-> l]

Returns(v) == [raised |-> FALSE, val |-> v]
Raises == [raised |-> TRUE, val |-> PyNone]

\* truth value of a Python object, as `if`, `not` and `or` compute it
Truthy(v) ==
    CASE v.t = "None" -> FALSE
      [] v.t = "bool" -> v.v
      [] v.t = "str" -> v.v # ""
      [] v.t = "list" -> v.v # <<>>

\* seq[k] for a Python list: negative k counts from the end
PyInRange(seq, k) == -Len(seq) <= k /\ k < Len(seq)
PyIndex(seq, k) == IF k >= 0 THEN seq[k + 1] ELSE seq[Len(seq) + k + 1]

\* one bound of seq[from:to], None given as the default d
PyClamp(seq, b, d) ==
    IF b = None THEN d
    ELSE IF b < 0 THEN (IF Len(seq) + b < 0 THEN 0 ELSE Len(seq) + b)
    ELSE IF b > Len(seq) THEN Len(seq) ELSE b

\* seq[from:to]
PySlice(seq, from, to) ==
    LET lo == PyClamp(seq, from, 0)
        hi == PyClamp(seq, to, Len(seq))
    IN IF lo >= hi THEN <<>> ELSE SubSeq(seq, lo + 1, hi)

\* os.path.join / os.path.basename on paths kept as component sequences
path_join(dir, filename) == Append(dir, filename)
basename(path) == path[Len(path)]

RECURSIVE PathStr(_)
PathStr(path) ==
    IF Len(path) = 1 THEN path[1]
    ELSE PathStr(SubSeq(path, 1, Len(path) - 1)) \o "/" \o path[Len(path)]

\* json.dumps of a dict of string -> list of strings (insertion order kept)
RECURSIVE JsonList(_)
JsonList(l) ==
    IF l = <<>> THEN ""
    ELSE "\"" \o l[1] \o "\"" \o (IF Len(l) > 1 THEN ", " ELSE "") \o JsonList(Tail(l))

RECURSIVE JsonItems(_)
JsonItems(d) ==
    IF d = <<>> THEN ""
    ELSE "\"" \o d[1][1] \o "\": [" \o JsonList(d[1][2]) \o "]"
         \o (IF Len(d) > 1 THEN ", " ELSE "") \o JsonItems(Tail(d))

json_dumps(d) == "{" \o JsonItems(d) \o "}"

-----------------------------------------------------------------------------
(* The Script subclasses a scripts directory may define *)

Surfaces == {"txt2img", "img2img"}
IsImg2img(r) == r = "img2img"

\* Base: a subclass overriding nothing, so every method is Script's own;
\* Broken: every method raises, show() only on the img2img surface;
\* BadRestraints: only ui_restraints() raises
ScriptClasses == {"Base", "Img2imgOnly", "Grid", "Broken", "BadRestraints"}
NotAScript == "NotAScript"      \* a top-level binding that is no Script subclass

Control(cls, k) == [owner |-> cls, k |-> k, custom_script_source |-> "", visible |-> TRUE]

title(cls) ==
    CASE cls = "Base" -> Raises
      [] cls = "Img2imgOnly" -> Returns(PyStr(""))
      [] cls = "Grid" -> Returns(PyStr("Grid"))
      [] cls = "Broken" -> Raises
      [] cls = "BadRestraints" -> Returns(PyStr("BadRestraints"))

ui(cls, is_img2img) ==
    CASE cls = "Base" -> Returns(PyNone)
      [] cls = "Img2imgOnly" -> Returns(PyList(<<Control(cls, 1)>>))
      [] cls = "Grid" -> IF is_img2img THEN Returns(PyList(<<>>))
                         ELSE Returns(PyList(<<Control(cls, 1), Control(cls, 2)>>))
      [] cls = "Broken" -> Raises
      [] cls = "BadRestraints" -> IF is_img2img THEN Returns(PyNone)
                                  ELSE Returns(PyList(<<Control(cls, 1)>>))

ui_restraints(cls) ==
    CASE cls = "Base" -> Returns(<<>>)
      [] cls = "Img2imgOnly" -> Returns(<< <<"methods", <<"Euler", "DDIM">> >> >>)
      [] cls = "Grid" -> Returns(<< <<"methods", <<"Euler">> >>, <<"samplers", <<>> >> >>)
      [] cls = "Broken" -> Raises
      [] cls = "BadRestraints" -> Raises

show(cls, is_img2img) ==
    CASE cls = "Base" -> Returns(PyBool(TRUE))
      [] cls = "Img2imgOnly" -> Returns(PyBool(is_img2img))
      [] cls = "Grid" -> Returns(PyBool(TRUE))
      [] cls = "Broken" -> IF is_img2img THEN Raises ELSE Returns(PyBool(TRUE))
      [] cls = "BadRestraints" -> Returns(PyBool(TRUE))

\* Script.run of an instance: the Processed object it returns, or a raise
Processed(cls, script_args) == [by |-> cls, args |-> script_args]
NoProcessed == [by |-> "", args |-> <<>>]

\* Base.run is Script.run itself; Img2imgOnly.run rejects a large first argument
run_raises(cls, script_args) ==
    \/ cls \in {"Base", "Broken"}
    \/ cls = "Img2imgOnly" /\ script_args # <<>> /\ script_args[1] > 150

-----------------------------------------------------------------------------
(* load_scripts *)

FileNames == <<"a.py", "b.py", "c.py", "d.py", "e.py", "f.py">>
ScriptsDir == <<"scripts">>

\* how far the try block of one file gets: open/read, compile, exec, or all of it
Stages == {"read", "compile", "exec", "ok"}

\* the (script_class, path) pairs of one module's namespace, in binding order
RECURSIVE ScanModule(_, _)
ScanModule(bindings, path) ==
    IF bindings = <<>> THEN <<>>
    ELSE (IF bindings[1] \in ScriptClasses THEN << <<bindings[1], path>> >> ELSE <<>>)
         \o ScanModule(Tail(bindings), path)

\* LoadFile registering the classes a module defined before its exec() raised
LoadFileKeepsDefined(entry) ==
    LET path == path_join(ScriptsDir, entry.filename)
    IN IF ~entry.isfile THEN <<>>
       ELSE IF entry.fails \in {"read", "compile"} THEN <<>>
       ELSE ScanModule(entry.bindings, path)

\* one iteration of the listdir loop
LoadFile(entry) ==
    LET path == path_join(ScriptsDir, entry.filename)
    IN IF ~entry.isfile THEN <<>>
       ELSE IF entry.fails # "ok" THEN <<>>
       ELSE ScanModule(entry.bindings, path)

RECURSIVE LoadEntries(_)
LoadEntries(entries) ==
    IF entries = <<>> THEN <<>>
    ELSE LoadFile(entries[1]) \o LoadEntries(Tail(entries))

load_scripts(dir) == IF ~dir.exists THEN <<>> ELSE LoadEntries(dir.entries)

-----------------------------------------------------------------------------
(* wrap_call *)

wrap_call(outcome, default) == IF outcome.raised THEN default ELSE outcome.val

-----------------------------------------------------------------------------
(* ScriptRunner.setup_ui *)

NewScript(script_class, path) ==
    [cls |-> script_class, filename |-> path, args_from |-> None, args_to |-> None]

\* first loop: instantiate every registered class, keep the instances show() accepts;
\* show() is called directly, so its raise ends setup_ui with what was appended so far
RECURSIVE RetainLoop(_, _, _)
RetainLoop(data, is_img2img, scripts) ==
    IF data = <<>> THEN [scripts |-> scripts, raised |-> FALSE]
    ELSE LET script == NewScript(data[1][1], data[1][2])
             shown == show(script.cls, is_img2img)
         IN IF shown.raised THEN [scripts |-> scripts, raised |-> TRUE]
            ELSE IF ~Truthy(shown.val) THEN RetainLoop(Tail(data), is_img2img, scripts)
            ELSE RetainLoop(Tail(data), is_img2img, Append(scripts, script))

ScriptTitle(script) ==
    LET t == wrap_call(title(script.cls), PyNone)
    IN IF Truthy(t) THEN t.v ELSE PathStr(script.filename) \o " [error]"

Titles(scripts) == [i \in 1..Len(scripts) |-> ScriptTitle(scripts[i])]

Dropdown(titles, id_prefix) ==
    [label |-> "Script", choices |-> <<"None">> \o titles, value |-> "None",
     elem_id |-> id_prefix \o "scripts"]

Textbox(id_prefix) ==
    [value |-> "{}", elem_id |-> id_prefix \o "script_restraints_json", visible |-> FALSE]

TagControls(controls, script) ==
    [k \in 1..Len(controls) |->
        [controls[k] EXCEPT !.custom_script_source = basename(script.filename),
                            !.visible = FALSE]]

\* AllocLoop numbering args_from by the script's ordinal instead of len(inputs)
RECURSIVE AllocLoopOrdinalFrom(_, _, _, _)
AllocLoopOrdinalFrom(scripts, i, inputs, is_img2img) ==
    IF i > Len(scripts) THEN [scripts |-> scripts, inputs |-> inputs]
    ELSE LET script == scripts[i]
             controls == wrap_call(ui(script.cls, is_img2img), PyNone)
             added == IF controls = PyNone THEN <<>> ELSE TagControls(controls.v, script)
             inputs2 == inputs \o added
             script2 == [script EXCEPT !.args_from = i, !.args_to = Len(inputs2)]
         IN AllocLoopOrdinalFrom([scripts EXCEPT ![i] = script2], i + 1, inputs2, is_img2img)

\* AllocLoop without the final `script.args_to = len(inputs)`
RECURSIVE AllocLoopStaleTo(_, _, _, _)
AllocLoopStaleTo(scripts, i, inputs, is_img2img) ==
    IF i > Len(scripts) THEN [scripts |-> scripts, inputs |-> inputs]
    ELSE LET script == scripts[i]
             controls == wrap_call(ui(script.cls, is_img2img), PyNone)
             added == IF controls = PyNone THEN <<>> ELSE TagControls(controls.v, script)
             inputs2 == inputs \o added
             script2 == [script EXCEPT !.args_from = Len(inputs), !.args_to = Len(inputs)]
         IN AllocLoopStaleTo([scripts EXCEPT ![i] = script2], i + 1, inputs2, is_img2img)

\* AllocLoop without the initial `script.args_to = len(inputs)`
RECURSIVE AllocLoopNoInitTo(_, _, _, _)
AllocLoopNoInitTo(scripts, i, inputs, is_img2img) ==
    IF i > Len(scripts) THEN [scripts |-> scripts, inputs |-> inputs]
    ELSE LET script == scripts[i]
             controls == wrap_call(ui(script.cls, is_img2img), PyNone)
             added == IF controls = PyNone THEN <<>> ELSE TagControls(controls.v, script)
             inputs2 == inputs \o added
             script2 == [script EXCEPT !.args_from = Len(inputs),
                                       !.args_to = IF controls = PyNone THEN @ ELSE Len(inputs2)]
         IN AllocLoopNoInitTo([scripts EXCEPT ![i] = script2], i + 1, inputs2, is_img2img)

\* second loop: give the i-th and later scripts their ranges, appending their controls
RECURSIVE AllocLoop(_, _, _, _)
AllocLoop(scripts, i, inputs, is_img2img) ==
    IF i > Len(scripts) THEN [scripts |-> scripts, inputs |-> inputs]
    ELSE LET script == scripts[i]
             controls == wrap_call(ui(script.cls, is_img2img), PyNone)
             added == IF controls = PyNone THEN <<>> ELSE TagControls(controls.v, script)
             inputs2 == inputs \o added
             script2 == [script EXCEPT !.args_from = Len(inputs), !.args_to = Len(inputs2)]
         IN AllocLoop([scripts EXCEPT ![i] = script2], i + 1, inputs2, is_img2img)

\* the whole of setup_ui on a runner whose self.scripts is old_scripts
setup_ui(old_scripts, data, is_img2img) ==
    LET kept == RetainLoop(data, is_img2img, old_scripts)
        id_prefix == IF is_img2img THEN "img2img_" ELSE "txt2img_"
        dropdown == Dropdown(Titles(kept.scripts), id_prefix)
        alloc == AllocLoop(kept.scripts, 1, <<dropdown>>, is_img2img)
    IN IF kept.raised
       THEN [raised |-> TRUE, scripts |-> kept.scripts, inputs |-> <<>>]
       ELSE [raised |-> FALSE, scripts |-> alloc.scripts,
             inputs |-> Append(alloc.inputs, Textbox(id_prefix))]

-----------------------------------------------------------------------------
(* select_script, the closure setup_ui registers on the dropdown *)

gr_show(visible) == [visible |-> visible, type |-> "update"]
TextboxUpdate(value) == [value |-> value, visible |-> FALSE, type |-> "update"]

\* select_script whose no-selection branch spans the whole vector
select_scriptShowsAll(scripts, inputs, script_index) ==
    LET chosen == 0 < script_index /\ script_index <= Len(scripts)
        script == scripts[script_index]
        args_from == IF chosen THEN script.args_from ELSE 0
        args_to == IF chosen THEN script.args_to ELSE Len(inputs)
        shown == [p \in 1..(Len(inputs) - 1) |->
                     gr_show(IF p - 1 = 0 THEN TRUE
                             ELSE args_from <= p - 1 /\ p - 1 < args_to)]
        restraints == IF chosen THEN ui_restraints(script.cls) ELSE Returns(<<>>)
    IN IF restraints.raised THEN [raised |-> TRUE, out |-> <<>>]
       ELSE [raised |-> FALSE,
             out |-> Append(shown, TextboxUpdate(json_dumps(restraints.val)))]

\* select_script testing only `script_index <= len(self.scripts)`, script_index != 0
select_scriptNoLowerBound(scripts, inputs, script_index) ==
    LET chosen == script_index # 0 /\ script_index <= Len(scripts)
        found == PyInRange(scripts, script_index - 1)
        script == PyIndex(scripts, script_index - 1)
        args_from == IF chosen THEN script.args_from ELSE 0
        args_to == IF chosen THEN script.args_to ELSE 0
        shown == [p \in 1..(Len(inputs) - 1) |->
                     gr_show(IF p - 1 = 0 THEN TRUE
                             ELSE args_from <= p - 1 /\ p - 1 < args_to)]
        restraints == IF chosen THEN ui_restraints(script.cls) ELSE Returns(<<>>)
    IN IF chosen /\ ~found THEN [raised |-> TRUE, out |-> <<>>]
       ELSE IF restraints.raised THEN [raised |-> TRUE, out |-> <<>>]
       ELSE [raised |-> FALSE,
             out |-> Append(shown, TextboxUpdate(json_dumps(restraints.val)))]

select_script(scripts, inputs, script_index) ==
    LET chosen == 0 < script_index /\ script_index <= Len(scripts)
        script == scripts[script_index]
        args_from == IF chosen THEN script.args_from ELSE 0
        args_to == IF chosen THEN script.args_to ELSE 0
        shown == [p \in 1..(Len(inputs) - 1) |->
                     gr_show(IF p - 1 = 0 THEN TRUE
                             ELSE args_from <= p - 1 /\ p - 1 < args_to)]
        restraints == IF chosen THEN ui_restraints(script.cls) ELSE Returns(<<>>)
    IN IF restraints.raised THEN [raised |-> TRUE, out |-> <<>>]
       ELSE [raised |-> FALSE,
             out |-> Append(shown, TextboxUpdate(json_dumps(restraints.val)))]

-----------------------------------------------------------------------------
(* ScriptRunner.run *)

\* run resolving self.scripts[script_index] instead of [script_index-1]
runNextScript(scripts, args) ==
    LET script_index == args[1]
        pos == IF script_index >= 0 THEN script_index + 1
               ELSE Len(scripts) + script_index + 1
        script == PyIndex(scripts, script_index)
        script_args == PySlice(args, script.args_from, script.args_to)
        call == [script |-> pos, args |-> script_args]
    IN IF script_index = 0
       THEN [outcome |-> "return", exc |-> "", processed |-> NoProcessed,
             calls |-> <<>>, clears |-> 0]
       ELSE IF ~PyInRange(scripts, script_index)
       THEN [outcome |-> "raise", exc |-> "IndexError", processed |-> NoProcessed,
             calls |-> <<>>, clears |-> 0]
       ELSE IF run_raises(script.cls, script_args)
       THEN [outcome |-> "raise", exc |-> "ScriptError", processed |-> NoProcessed,
             calls |-> <<call>>, clears |-> 0]
       ELSE [outcome |-> "return", exc |-> "",
             processed |-> Processed(script.cls, script_args),
             calls |-> <<call>>, clears |-> 1]

\* run without the `script_index == 0` return
runNoZeroCheck(scripts, args) ==
    LET script_index == args[1]
        pos == IF script_index - 1 >= 0 THEN script_index
               ELSE Len(scripts) + script_index
        script == PyIndex(scripts, script_index - 1)
        script_args == PySlice(args, script.args_from, script.args_to)
        call == [script |-> pos, args |-> script_args]
    IN IF FALSE
       THEN [outcome |-> "return", exc |-> "", processed |-> NoProcessed,
             calls |-> <<>>, clears |-> 0]
       ELSE IF ~PyInRange(scripts, script_index - 1)
       THEN [outcome |-> "raise", exc |-> "IndexError", processed |-> NoProcessed,
             calls |-> <<>>, clears |-> 0]
       ELSE IF run_raises(script.cls, script_args)
       THEN [outcome |-> "raise", exc |-> "ScriptError", processed |-> NoProcessed,
             calls |-> <<call>>, clears |-> 0]
       ELSE [outcome |-> "return", exc |-> "",
             processed |-> Processed(script.cls, script_args),
             calls |-> <<call>>, clears |-> 1]

\* run clearing total_tqdm in a finally block
runFinallyClear(scripts, args) ==
    LET script_index == args[1]
        pos == IF script_index - 1 >= 0 THEN script_index
               ELSE Len(scripts) + script_index
        script == PyIndex(scripts, script_index - 1)
        script_args == PySlice(args, script.args_from, script.args_to)
        call == [script |-> pos, args |-> script_args]
    IN IF script_index = 0
       THEN [outcome |-> "return", exc |-> "", processed |-> NoProcessed,
             calls |-> <<>>, clears |-> 0]
       ELSE IF ~PyInRange(scripts, script_index - 1)
       THEN [outcome |-> "raise", exc |-> "IndexError", processed |-> NoProcessed,
             calls |-> <<>>, clears |-> 0]
       ELSE IF run_raises(script.cls, script_args)
       THEN [outcome |-> "raise", exc |-> "ScriptError", processed |-> NoProcessed,
             calls |-> <<call>>, clears |-> 1]
       ELSE [outcome |-> "return", exc |-> "",
             processed |-> Processed(script.cls, script_args),
             calls |-> <<call>>, clears |-> 1]

\* calls: the Script.run invocations made, as [script, args] with script the
\* position of the instance in self.scripts; clears: total_tqdm.clear() calls made
run(scripts, args) ==
    LET script_index == args[1]
        pos == IF script_index - 1 >= 0 THEN script_index
               ELSE Len(scripts) + script_index
        script == PyIndex(scripts, script_index - 1)
        script_args == PySlice(args, script.args_from, script.args_to)
        call == [script |-> pos, args |-> script_args]
    IN IF script_index = 0
       THEN [outcome |-> "return", exc |-> "", processed |-> NoProcessed,
             calls |-> <<>>, clears |-> 0]
       ELSE IF ~PyInRange(scripts, script_index - 1)
       THEN [outcome |-> "raise", exc |-> "IndexError", processed |-> NoProcessed,
             calls |-> <<>>, clears |-> 0]
       ELSE IF run_raises(script.cls, script_args)
       THEN [outcome |-> "raise", exc |-> "ScriptError", processed |-> NoProcessed,
             calls |-> <<call>>, clears |-> 0]
       ELSE [outcome |-> "return", exc |-> "",
             processed |-> Processed(script.cls, script_args),
             calls |-> <<call>>, clears |-> 1]

-----------------------------------------------------------------------------
(* Directories the host may start on *)

SeqsUpTo(S, n) == UNION {[1..k -> S] : k \in 0..n}

Named(contents) ==
    [i \in 1..Len(contents) |->
        [filename |-> FileNames[i], isfile |-> contents[i].isfile,
         fails |-> contents[i].fails, bindings |-> contents[i].bindings]]

\* sessions: every entry is a file that loads and defines one Script subclass
SessionFiles ==
    {[isfile |-> TRUE, fails |-> "ok", bindings |-> <<c>>] : c \in ScriptClasses}

SessionDirs ==
    {[exists |-> TRUE, entries |-> Named(e)] : e \in SeqsUpTo(SessionFiles, MaxFiles)}

\* discovery: sub-directories, files failing at each stage, several bindings per file
DiscoveryBindings == {"Grid", NotAScript}

DiscoveryFiles ==
    {[isfile |-> FALSE, fails |-> "ok", bindings |-> <<>>]}
    \cup {[isfile |-> TRUE, fails |-> f, bindings |-> <<>>] : f \in {"read", "compile"}}
    \cup {[isfile |-> TRUE, fails |-> f, bindings |-> b] :
            f \in {"exec", "ok"}, b \in SeqsUpTo(DiscoveryBindings, MaxBindings)}

DiscoveryDirs ==
    {[exists |-> FALSE, entries |-> <<>>]}
    \cup {[exists |-> TRUE, entries |-> Named(e)] : e \in SeqsUpTo(DiscoveryFiles, MaxDirFiles)}

-----------------------------------------------------------------------------
(* State machine *)

NoCall ==
    [op |-> "none", runner |-> "", outcome |-> "return", exc |-> "", args |-> <<>>,
     out |-> <<>>, processed |-> NoProcessed, calls |-> <<>>, clears |-> 0]

\* ScriptRunner.__init__
NewRunner == [scripts |-> <<>>, inputs |-> <<>>, built |-> FALSE, builds |-> 0]

InitModule ==
    /\ scripts_data = <<>>
    /\ loaded = FALSE
    /\ runners = [r \in Surfaces |-> NewRunner]
    /\ ret = NoCall

Init == basedir \in SessionDirs /\ InitModule

InitDiscovery == basedir \in DiscoveryDirs /\ InitModule

\* the host's start-up call load_scripts(<scripts directory>)
LoadScripts ==
    /\ ~loaded
    /\ scripts_data' = scripts_data \o load_scripts(basedir)
    /\ loaded' = TRUE
    /\ ret' = [NoCall EXCEPT !.op = "load_scripts"]
    /\ UNCHANGED <<basedir, runners>>

\* SetupUi sharing one instance per registry entry between the two runners: the
\* ranges it assigns show in the other runner's instances of the same entry
SetupUiSharedInstances(r) ==
    /\ loaded
    /\ runners["txt2img"].builds + runners["img2img"].builds < MaxBuilds
    /\ LET res == setup_ui(runners[r].scripts, scripts_data, IsImg2img(r))
           Same(a, b) == a.cls = b.cls /\ a.filename = b.filename
           Shared(script) ==
               IF \E k \in 1..Len(res.scripts) : Same(res.scripts[k], script)
               THEN LET k == CHOOSE k \in 1..Len(res.scripts) : Same(res.scripts[k], script)
                    IN [script EXCEPT !.args_from = res.scripts[k].args_from,
                                      !.args_to = res.scripts[k].args_to]
               ELSE script
       IN /\ runners' = [o \in Surfaces |->
                            IF o = r
                            THEN [scripts |-> res.scripts,
                                  inputs |-> IF res.raised THEN runners[o].inputs
                                             ELSE res.inputs,
                                  built |-> runners[o].built \/ ~res.raised,
                                  builds |-> runners[o].builds + 1]
                            ELSE [runners[o] EXCEPT !.scripts =
                                     [k \in 1..Len(runners[o].scripts) |->
                                         Shared(runners[o].scripts[k])]]]
          /\ ret' = [NoCall EXCEPT !.op = "setup_ui", !.runner = r,
                                   !.outcome = IF res.raised THEN "raise" ELSE "return",
                                   !.exc = IF res.raised THEN "ScriptError" ELSE "",
                                   !.out = IF res.raised THEN <<>> ELSE res.inputs]
    /\ UNCHANGED <<basedir, scripts_data, loaded>>

\* scripts_txt2img.setup_ui(is_img2img=False) / scripts_img2img.setup_ui(is_img2img=True)
SetupUi(r) ==
    /\ loaded
    /\ runners["txt2img"].builds + runners["img2img"].builds < MaxBuilds
    /\ LET res == setup_ui(runners[r].scripts, scripts_data, IsImg2img(r))
       IN /\ runners' = [runners EXCEPT ![r] =
                            [scripts |-> res.scripts,
                             inputs |-> IF res.raised THEN @.inputs ELSE res.inputs,
                             built |-> @.built \/ ~res.raised,
                             builds |-> @.builds + 1]]
          /\ ret' = [NoCall EXCEPT !.op = "setup_ui", !.runner = r,
                                   !.outcome = IF res.raised THEN "raise" ELSE "return",
                                   !.exc = IF res.raised THEN "ScriptError" ELSE "",
                                   !.out = IF res.raised THEN <<>> ELSE res.inputs]
    /\ UNCHANGED <<basedir, scripts_data, loaded>>

Selectors == (-MaxSelector)..MaxSelector

\* the dropdown of runner r changes to script_index
SelectScript(r, script_index) ==
    /\ runners[r].built
    /\ LET res == select_script(runners[r].scripts, runners[r].inputs, script_index)
       IN ret' = [NoCall EXCEPT !.op = "select_script", !.runner = r,
                                !.args = <<script_index>>,
                                !.outcome = IF res.raised THEN "raise" ELSE "return",
                                !.exc = IF res.raised THEN "ScriptError" ELSE "",
                                !.out = res.out]
    /\ UNCHANGED <<basedir, scripts_data, loaded, runners>>

\* argument vectors the host passes: the selector, then one value per further input
ArgVectors(r, script_index) ==
    LET n == IF runners[r].inputs = <<>> THEN 0 ELSE Len(runners[r].inputs) - 1
    IN {<<script_index>> \o [p \in 1..n |-> 100 + p],
        <<script_index>> \o [p \in 1..n |-> 200 - p]}

\* Run taking the dispatched script out of self.scripts (pop instead of indexing)
RunPopsScript(r, args) ==
    /\ loaded
    /\ LET res == run(runners[r].scripts, args)
           popped == IF res.calls = <<>> THEN runners[r].scripts
                     ELSE [k \in 1..(Len(runners[r].scripts) - 1) |->
                              IF k < res.calls[1].script THEN runners[r].scripts[k]
                              ELSE runners[r].scripts[k + 1]]
       IN /\ ret' = [NoCall EXCEPT !.op = "run", !.runner = r, !.args = args,
                                   !.outcome = res.outcome, !.exc = res.exc,
                                   !.processed = res.processed, !.calls = res.calls,
                                   !.clears = res.clears]
          /\ runners' = [runners EXCEPT ![r].scripts = popped]
    /\ UNCHANGED <<basedir, scripts_data, loaded>>

\* runner r . run(p, *args)
Run(r, args) ==
    /\ loaded
    /\ LET res == run(runners[r].scripts, args)
       IN ret' = [NoCall EXCEPT !.op = "run", !.runner = r, !.args = args,
                                !.outcome = res.outcome, !.exc = res.exc,
                                !.processed = res.processed, !.calls = res.calls,
                                !.clears = res.clears]
    /\ UNCHANGED <<basedir, scripts_data, loaded, runners>>

Next ==
    \/ LoadScripts
    \/ \E r \in Surfaces : SetupUi(r)
    \/ \E r \in Surfaces, i \in Selectors : SelectScript(r, i)
    \/ \E r \in Surfaces, i \in Selectors : \E args \in ArgVectors(r, i) : Run(r, args)

Spec == Init /\ [][Next]_vars

NextDiscovery == LoadScripts

SpecDiscovery == InitDiscovery /\ [][NextDiscovery]_vars

TypeOK ==
    /\ loaded \in BOOLEAN
    /\ \A r \in Surfaces : runners[r].builds \in 0..MaxBuilds

-----------------------------------------------------------------------------
(* Vocabulary of the properties *)

Scripts(r) == runners[r].scripts
Inputs(r) == runners[r].inputs
Built(r) == runners[r].built
NumScripts(r) == Len(Scripts(r))

\* c_k: the number of controls the k-th retained script of runner r declares
DeclaredControls(r, k) ==
    LET declared == ui(Scripts(r)[k].cls, IsImg2img(r))
    IN IF declared.raised \/ declared.val.t # "list" THEN 0 ELSE Len(declared.val.v)

RECURSIVE SumDeclared(_, _)
SumDeclared(r, k) == IF k = 0 THEN 0 ELSE DeclaredControls(r, k) + SumDeclared(r, k - 1)

\* the 0-based position of the trailing restraint-json slot
RestraintSlot(r) == Len(Inputs(r)) - 1

-----------------------------------------------------------------------------
\* C1: in a built session the ranges of the retained scripts are contiguous and
\* non-overlapping in retained order: the first starts at 1, right after the
\* selector slot 0, each next one starts where the previous one ends, no range
\* is reversed, and the last one ends at the trailing restraint-json slot.
C1_RangesContiguous ==
    \A r \in Surfaces :
        Built(r) =>
            /\ Len(Inputs(r)) >= 2
            /\ NumScripts(r) = 0 => RestraintSlot(r) = 1
            /\ NumScripts(r) > 0 =>
                /\ Scripts(r)[1].args_from = 1
                /\ Scripts(r)[NumScripts(r)].args_to = RestraintSlot(r)
            /\ \A k \in 1..NumScripts(r) :
                /\ Scripts(r)[k].args_from <= Scripts(r)[k].args_to
                /\ k > 1 => Scripts(r)[k].args_from = Scripts(r)[k - 1].args_to

C1_Witness ==
    \E r \in Surfaces :
        /\ Built(r)
        /\ NumScripts(r) >= 2
        /\ Scripts(r)[1].args_from < Scripts(r)[1].args_to
        /\ Scripts(r)[2].args_from < Scripts(r)[2].args_to

\* C2: the vector setup_ui returns has length 1 + (sum of the c_k) + 1, and
\* every retained script's range is as wide as the number of controls it declares.
C2_VectorLength ==
    \A r \in Surfaces :
        Built(r) =>
            /\ Len(Inputs(r)) = 1 + SumDeclared(r, NumScripts(r)) + 1
            /\ \A k \in 1..NumScripts(r) :
                Scripts(r)[k].args_to - Scripts(r)[k].args_from = DeclaredControls(r, k)
            /\ (ret.op = "setup_ui" /\ ret.runner = r) => ret.out = Inputs(r)

C2_Witness ==
    \E r \in Surfaces :
        /\ Built(r)
        /\ ret.op = "setup_ui" /\ ret.runner = r
        /\ NumScripts(r) >= 2
        /\ \E k \in 1..NumScripts(r) : DeclaredControls(r, k) = 0
        /\ \E k \in 1..NumScripts(r) : DeclaredControls(r, k) = 2

-----------------------------------------------------------------------------
\* the selector value of the last select_script or run call
LastSelector == ret.args[1]

\* the visibility select_script's output gives the control at 0-based position p
Visible(p) == ret.out[p + 1].visible

\* the value select_script's output gives the trailing restraint-json textbox
Payload == ret.out[Len(ret.out)].value

\* the 0-based positions of the plugin controls: after the selector, before the textbox
ControlSlots(r) == 1..(RestraintSlot(r) - 1)

\* C3: for every selector i in 1..N, select_script(i) reveals exactly the controls
\* at the positions args_from_i <= p < args_to_i of the i-th retained script, hides
\* every other plugin control, and sets the trailing payload to the JSON
\* serialization of that script's ui_restraints().
C3_SelectReveals ==
    \A r \in Surfaces :
        (/\ ret.op = "select_script" /\ ret.runner = r
         /\ 1 <= LastSelector /\ LastSelector <= NumScripts(r)) =>
            LET script == Scripts(r)[LastSelector]
            IN /\ ret.outcome = "return"
               /\ Len(ret.out) = Len(Inputs(r))
               /\ \A p \in ControlSlots(r) :
                    Visible(p) <=> (script.args_from <= p /\ p < script.args_to)
               /\ ~ui_restraints(script.cls).raised
               /\ Payload = json_dumps(ui_restraints(script.cls).val)

\* C3 restricted to the scripts whose ui_restraints() returns: the part of C3
\* the code does satisfy.
C3_SelectRevealsWhenRestraintsReturn ==
    \A r \in Surfaces :
        (/\ ret.op = "select_script" /\ ret.runner = r
         /\ 1 <= LastSelector /\ LastSelector <= NumScripts(r)
         /\ ~ui_restraints(Scripts(r)[LastSelector].cls).raised) =>
            LET script == Scripts(r)[LastSelector]
            IN /\ ret.outcome = "return"
               /\ Len(ret.out) = Len(Inputs(r))
               /\ \A p \in ControlSlots(r) :
                    Visible(p) <=> (script.args_from <= p /\ p < script.args_to)
               /\ Payload = json_dumps(ui_restraints(script.cls).val)

\* C4: for every selector i in 1..N and a vector as long as the one setup_ui
\* returned, run calls Script.run once, on the i-th retained script, with the
\* c_i values at the positions args_from_i <= p < args_to_i in their order; when
\* that call returns, total_tqdm is cleared once and its result is returned.
C4_RunDispatches ==
    \A r \in Surfaces :
        (/\ ret.op = "run" /\ ret.runner = r /\ Built(r)
         /\ Len(ret.args) = Len(Inputs(r))
         /\ 1 <= LastSelector /\ LastSelector <= NumScripts(r)) =>
            LET script == Scripts(r)[LastSelector]
                slice == [j \in 1..DeclaredControls(r, LastSelector) |->
                             ret.args[script.args_from + j]]
            IN /\ ret.calls = <<[script |-> LastSelector, args |-> slice]>>
               /\ ret.outcome = "return" <=> ~run_raises(script.cls, slice)
               /\ ret.outcome = "return" =>
                    /\ ret.clears = 1
                    /\ ret.processed = Processed(script.cls, slice)

C4_Witness ==
    \E r \in Surfaces :
        /\ ret.op = "run" /\ ret.runner = r /\ Built(r)
        /\ LastSelector = 2 /\ NumScripts(r) >= 2
        /\ ret.outcome = "return"
        /\ ret.clears = 1
        /\ Len(ret.processed.args) = 2
        /\ Scripts(r)[1].args_from < Scripts(r)[1].args_to

\* C5: run with selector 0 returns None, calls no Script.run and does not clear
\* total_tqdm, whatever the rest of the vector holds.
C5_RunNoneSelected ==
    (ret.op = "run" /\ LastSelector = 0) =>
        /\ ret.outcome = "return"
        /\ ret.processed = NoProcessed
        /\ ret.calls = <<>>
        /\ ret.clears = 0

C5_Witness ==
    /\ ret.op = "run" /\ LastSelector = 0
    /\ Built(ret.runner)
    /\ NumScripts(ret.runner) >= 1
    /\ Len(ret.args) > 2
    /\ ret.outcome = "return"

\* C6: select_script(0) hides every plugin control and sets the payload to "{}".
C6_SelectNone ==
    \A r \in Surfaces :
        (ret.op = "select_script" /\ ret.runner = r /\ LastSelector = 0) =>
            /\ ret.outcome = "return"
            /\ Len(ret.out) = Len(Inputs(r))
            /\ \A p \in ControlSlots(r) : ~Visible(p)
            /\ Payload = "{}"

C6_Witness ==
    \E r \in Surfaces :
        /\ ret.op = "select_script" /\ ret.runner = r /\ LastSelector = 0
        /\ ret.outcome = "return"
        /\ Cardinality(ControlSlots(r)) >= 2

\* C7: when the Script.run that run resolves raises, run raises that same error,
\* does not clear total_tqdm, and leaves the runners and the registry as they were.
C7_RunFailurePropagates ==
    [][\A r \in Surfaces :
        (/\ ret'.op = "run" /\ ret'.runner = r
         /\ ret'.args[1] # 0
         /\ PyInRange(Scripts(r), ret'.args[1] - 1)
         /\ LET script == PyIndex(Scripts(r), ret'.args[1] - 1)
            IN run_raises(script.cls,
                          PySlice(ret'.args, script.args_from, script.args_to))) =>
            /\ ret'.outcome = "raise"
            /\ ret'.exc = "ScriptError"
            /\ ret'.clears = 0
            /\ ret'.processed = NoProcessed
            /\ runners' = runners
            /\ scripts_data' = scripts_data]_vars

C7_Witness ==
    /\ ret.op = "run"
    /\ ret.outcome = "raise"
    /\ ret.exc = "ScriptError"
    /\ Len(ret.calls) = 1
    /\ ret.calls[1].args # <<>>

\* a retained script whose ui() raises and which setup_ui's second loop has reached
UiRaised(r, k) ==
    /\ ui(Scripts(r)[k].cls, IsImg2img(r)).raised
    /\ Scripts(r)[k].args_from # None

\* C8: a script whose ui() raises during setup_ui keeps its selector choice, gets an
\* empty range, does not make setup_ui raise, and the script after it gets the
\* range that starts where the empty one ends and is as wide as its own controls.
C8_UiRaiseTolerated ==
    \A r \in Surfaces :
        /\ \A k \in 1..NumScripts(r) :
            UiRaised(r, k) =>
                /\ Built(r)
                /\ Scripts(r)[k].args_from = Scripts(r)[k].args_to
                /\ Len(Inputs(r)[1].choices) = 1 + NumScripts(r)
                /\ Inputs(r)[1].choices[k + 1] = ScriptTitle(Scripts(r)[k])
                /\ k < NumScripts(r) =>
                    /\ Scripts(r)[k + 1].args_from = Scripts(r)[k].args_to
                    /\ Scripts(r)[k + 1].args_to - Scripts(r)[k + 1].args_from
                           = DeclaredControls(r, k + 1)
        /\ (/\ ret.op = "setup_ui" /\ ret.runner = r
            /\ \E k \in 1..NumScripts(r) : UiRaised(r, k)) => ret.outcome = "return"

C8_Witness ==
    \E r \in Surfaces :
        /\ ret.op = "setup_ui" /\ ret.runner = r /\ ret.outcome = "return"
        /\ NumScripts(r) >= 2
        /\ UiRaised(r, 1)
        /\ DeclaredControls(r, 2) >= 1

\* the Script subclasses among the bindings of directory entry e, in binding order
DefinedClasses(e) ==
    LET IsScriptClass(b) == b \in ScriptClasses
    IN SelectSeq(e.bindings, IsScriptClass)

LoadsCleanly(e) == e.isfile /\ e.fails = "ok"

\* the classes the registry holds for path
RegisteredFrom(path) ==
    LET FromPath(d) == d[2] = path
        found == SelectSeq(scripts_data, FromPath)
    IN [j \in 1..Len(found) |-> found[j][1]]

EntryPath(e) == <<"scripts", e.filename>>

\* C9: after load_scripts, a file that failed at any stage (also one whose
\* execution raised after defining Script subclasses) has no descriptor, every file
\* that loaded has all of its Script subclasses registered, and nothing else is
\* registered.
C9_DiscoveryIsolatesFailures ==
    loaded =>
        /\ \A i \in 1..Len(basedir.entries) :
            LET e == basedir.entries[i]
            IN RegisteredFrom(EntryPath(e))
                   = IF LoadsCleanly(e) THEN DefinedClasses(e) ELSE <<>>
        /\ \A j \in 1..Len(scripts_data) :
            \E i \in 1..Len(basedir.entries) :
                scripts_data[j][2] = EntryPath(basedir.entries[i])
        /\ \A j, k \in 1..Len(scripts_data) :
            \A i, l \in 1..Len(basedir.entries) :
                (/\ j < k
                 /\ scripts_data[j][2] = EntryPath(basedir.entries[i])
                 /\ scripts_data[k][2] = EntryPath(basedir.entries[l])) => i <= l
        /\ ~basedir.exists => scripts_data = <<>>

C9_Witness ==
    /\ loaded
    /\ Len(basedir.entries) = 2
    /\ basedir.entries[1].fails = "exec"
    /\ DefinedClasses(basedir.entries[1]) # <<>>
    /\ LoadsCleanly(basedir.entries[2])
    /\ Len(scripts_data) = 2

\* what a session fixes: the retained scripts in order, the number of selector
\* choices, and every script's range
Layout(runner) ==
    [order |-> [k \in 1..Len(runner.scripts) |->
                   <<runner.scripts[k].cls, runner.scripts[k].filename>>],
     choices |-> Len(runner.inputs[1].choices),
     ranges |-> [k \in 1..Len(runner.scripts) |->
                    <<runner.scripts[k].args_from, runner.scripts[k].args_to>>]]

\* C10: a setup_ui call on a runner that has already built its session, from the
\* unchanged registry, yields the same retained order, the same number of
\* selector choices and the same ranges as the build before it.
C10_RebuildIdempotent ==
    [][\A r \in Surfaces :
        (/\ ret'.op = "setup_ui" /\ ret'.runner = r /\ ret'.outcome = "return"
         /\ runners[r].built
         /\ runners'[r].builds = runners[r].builds + 1
         /\ scripts_data' = scripts_data) =>
            Layout(runners'[r]) = Layout(runners[r])]_vars

-----------------------------------------------------------------------------
\* C11: run with a selector that is neither 0 nor in 1..N raises IndexError:
\* it calls no Script.run, does not clear total_tqdm and returns no result.
C11_RunOutOfRangeRaises ==
    \A r \in Surfaces :
        (/\ ret.op = "run" /\ ret.runner = r
         /\ LastSelector # 0
         /\ ~(1 <= LastSelector /\ LastSelector <= NumScripts(r))) =>
            /\ ret.outcome = "raise"
            /\ ret.exc = "IndexError"
            /\ ret.calls = <<>>
            /\ ret.clears = 0
            /\ ret.processed = NoProcessed

\* C11 for the selectors above N and those at or below -N: the part of C11 the
\* code does satisfy.
C11_RunBeyondBothEndsRaises ==
    \A r \in Surfaces :
        (/\ ret.op = "run" /\ ret.runner = r
         /\ (LastSelector > NumScripts(r) \/ LastSelector <= -NumScripts(r))
         /\ LastSelector # 0) =>
            /\ ret.outcome = "raise"
            /\ ret.exc = "IndexError"
            /\ ret.calls = <<>>
            /\ ret.clears = 0

-----------------------------------------------------------------------------
\* a registered class whose show() raises on the surface of runner r
ShowRaises(r, j) == show(scripts_data[j][1], IsImg2img(r)).raised

\* C12: when show() of a registered class raises during setup_ui, setup_ui still
\* returns, the class's instance is retained as if show() had returned True, and
\* the descriptors after it are processed (each applicable one is retained).
C12_ShowRaiseRecovered ==
    \A r \in Surfaces :
        (/\ ret.op = "setup_ui" /\ ret.runner = r
         /\ \E j \in 1..Len(scripts_data) : ShowRaises(r, j)) =>
            /\ ret.outcome = "return"
            /\ Built(r)
            /\ \A j \in 1..Len(scripts_data) :
                (\/ ShowRaises(r, j)
                 \/ Truthy(show(scripts_data[j][1], IsImg2img(r)).val)) =>
                    \E k \in 1..NumScripts(r) :
                        /\ Scripts(r)[k].cls = scripts_data[j][1]
                        /\ Scripts(r)[k].filename = scripts_data[j][2]

-----------------------------------------------------------------------------
\* what select_script(0) returns on runner r: the selector shown, every plugin
\* control hidden, the trailing textbox set to "{}"
NoSelectionOutput(r) ==
    [p \in 1..Len(Inputs(r)) |->
        IF p = Len(Inputs(r)) THEN TextboxUpdate("{}") ELSE gr_show(p = 1)]

\* C13: select_script with a selector below 0 or above N returns, and returns
\* exactly what selector 0 returns: every plugin control hidden, payload "{}".
C13_SelectOutOfRangeIsNone ==
    \A r \in Surfaces :
        (/\ ret.op = "select_script" /\ ret.runner = r
         /\ (LastSelector < 0 \/ LastSelector > NumScripts(r))) =>
            /\ ret.outcome = "return"
            /\ ret.out = NoSelectionOutput(r)
            /\ \A p \in ControlSlots(r) : ~Visible(p)
            /\ Payload = "{}"

C13_Witness ==
    \E r \in Surfaces :
        /\ ret.op = "select_script" /\ ret.runner = r
        /\ LastSelector < 0 /\ -LastSelector < NumScripts(r)
        /\ ControlSlots(r) # {}
        /\ ret.outcome = "return"

C13_WitnessAbove ==
    \E r \in Surfaces :
        /\ ret.op = "select_script" /\ ret.runner = r
        /\ LastSelector > NumScripts(r) /\ NumScripts(r) >= 1
        /\ ControlSlots(r) # {}

-----------------------------------------------------------------------------
\* the label the dropdown of runner r shows for its k-th retained script
ChoiceLabel(r, k) == Inputs(r)[1].choices[k + 1]

\* C14: the selector label of every retained script is the value its title()
\* returned whenever title() returned, an empty string included, and is
\* "<source path> [error]" when title() raised.
C14_LabelIsTitle ==
    \A r \in Surfaces :
        Built(r) =>
            \A k \in 1..NumScripts(r) :
                LET script == Scripts(r)[k]
                IN ChoiceLabel(r, k) =
                       IF title(script.cls).raised
                       THEN PathStr(script.filename) \o " [error]"
                       ELSE title(script.cls).val.v

\* C14 for the scripts whose title() raises or returns a non-empty string: the
\* part of C14 the code does satisfy.
C14_LabelIsTitleWhenNotEmpty ==
    \A r \in Surfaces :
        Built(r) =>
            \A k \in 1..NumScripts(r) :
                LET script == Scripts(r)[k]
                IN (title(script.cls).raised \/ Truthy(title(script.cls).val)) =>
                       ChoiceLabel(r, k) =
                           IF title(script.cls).raised
                           THEN PathStr(script.filename) \o " [error]"
                           ELSE title(script.cls).val.v

-----------------------------------------------------------------------------
\* the registry entries whose show() returns a true value on the surface of runner r
Applicable(r) ==
    LET Shown(d) == LET s == show(d[1], IsImg2img(r))
                    IN ~s.raised /\ Truthy(s.val)
    IN SelectSeq(scripts_data, Shown)

\* the retained scripts of runner r as <<class, path>>, in retained order
Retained(r) == [k \in 1..NumScripts(r) |-> <<Scripts(r)[k].cls, Scripts(r)[k].filename>>]

\* the dropdown of runner r offers "None" and then one choice per retained script
ChoicesFollowRetained(r) ==
    /\ Len(Inputs(r)[1].choices) = NumScripts(r) + 1
    /\ Inputs(r)[1].choices[1] = "None"
    /\ Inputs(r)[1].value = "None"
    /\ \A k \in 1..NumScripts(r) : ChoiceLabel(r, k) = ScriptTitle(Scripts(r)[k])

\* C15: a built session retains exactly the registry's scripts whose show() is
\* true on its surface, in registry order, and its selector has N+1 choices,
\* "None" first and then one per retained script in retained order.
C15_RetainsApplicableInOrder ==
    \A r \in Surfaces :
        Built(r) =>
            /\ Retained(r) = Applicable(r)
            /\ ChoicesFollowRetained(r)

\* C15 for a session built by one setup_ui call: the part of C15 the code does
\* satisfy.
C15_FirstBuildRetainsApplicableInOrder ==
    \A r \in Surfaces :
        (Built(r) /\ runners[r].builds = 1) =>
            /\ Retained(r) = Applicable(r)
            /\ ChoicesFollowRetained(r)

\* the selector keeps following the retained list after every build
C15_ChoicesFollowRetained ==
    \A r \in Surfaces : Built(r) => ChoicesFollowRetained(r)

-----------------------------------------------------------------------------
\* C16: when ui_restraints() of the selected script raises inside select_script,
\* select_script still returns: the visibility updates are produced for the
\* script's range and the payload is the default "{}".
C16_RestraintsRaiseRecovered ==
    \A r \in Surfaces :
        (/\ ret.op = "select_script" /\ ret.runner = r
         /\ 1 <= LastSelector /\ LastSelector <= NumScripts(r)
         /\ ui_restraints(Scripts(r)[LastSelector].cls).raised) =>
            LET script == Scripts(r)[LastSelector]
            IN /\ ret.outcome = "return"
               /\ Len(ret.out) = Len(Inputs(r))
               /\ \A p \in ControlSlots(r) :
                    Visible(p) <=> (script.args_from <= p /\ p < script.args_to)
               /\ Payload = "{}"

-----------------------------------------------------------------------------
\* C17: in a built session a retained script that declares no controls still has
\* its selector choice; select_script with its index returns with every plugin
\* control hidden, and run with its index calls its run with no script argument.
C17_ZeroControlsSelectable ==
    \A r \in Surfaces :
        Built(r) =>
            \A k \in 1..NumScripts(r) :
                DeclaredControls(r, k) = 0 =>
                    /\ Len(Inputs(r)[1].choices) >= k + 1
                    /\ (ret.op = "select_script" /\ ret.runner = r /\ LastSelector = k) =>
                        /\ ret.outcome = "return"
                        /\ \A p \in ControlSlots(r) : ~Visible(p)
                    /\ (ret.op = "run" /\ ret.runner = r /\ LastSelector = k) =>
                        ret.calls = <<[script |-> k, args |-> <<>>]>>

\* C17 for the scripts whose ui_restraints() returns: the part of C17 the code
\* does satisfy.
C17_ZeroControlsSelectableWhenRestraintsReturn ==
    \A r \in Surfaces :
        Built(r) =>
            \A k \in 1..NumScripts(r) :
                (DeclaredControls(r, k) = 0 /\ ~ui_restraints(Scripts(r)[k].cls).raised) =>
                    /\ Len(Inputs(r)[1].choices) >= k + 1
                    /\ (ret.op = "select_script" /\ ret.runner = r /\ LastSelector = k) =>
                        /\ ret.outcome = "return"
                        /\ \A p \in ControlSlots(r) : ~Visible(p)
                    /\ (ret.op = "run" /\ ret.runner = r /\ LastSelector = k) =>
                        ret.calls = <<[script |-> k, args |-> <<>>]>>

-----------------------------------------------------------------------------
\* C18: a select_script or run call on a built session, returning or raising,
\* leaves every runner's retained list, order, ranges and input vector and the
\* registry scripts_data as they were.
C18_SelectAndRunChangeNothing ==
    [][(ret'.op \in {"select_script", "run"} /\ Built(ret'.runner)) =>
           /\ \A r \in Surfaces :
                /\ Scripts(r)' = Scripts(r)
                /\ Inputs(r)' = Inputs(r)
                /\ Built(r) => Layout(runners'[r]) = Layout(runners[r])
           /\ scripts_data' = scripts_data]_vars

C18_Witness ==
    /\ ret.op = "run"
    /\ ret.outcome = "raise"
    /\ Built(ret.runner)
    /\ NumScripts(ret.runner) >= 2
    /\ Len(ret.calls) = 1
    /\ Built("txt2img") /\ Built("img2img")

C18_WitnessSelect ==
    /\ ret.op = "select_script"
    /\ ret.outcome = "raise"
    /\ NumScripts(ret.runner) >= 2

-----------------------------------------------------------------------------
\* the 0-based positions, other than the selector, that a select_script output shows
VisiblePositions(out) == {p \in 1..(Len(out) - 2) : out[p + 1].visible}

\* an argument vector for selector i whose value at every position p >= 1 names p
PositionVector(r, i) == <<i>> \o [p \in 1..(Len(Inputs(r)) - 1) |-> 100 + p]

\* the positions of a PositionVector whose values a Script.run call received
PassedPositions(call) == {call.args[j] - 100 : j \in 1..Len(call.args)}

\* select_script(i) and run(i, ...) on the session of runner r agree: select_script
\* returns, run calls the i-th retained script, the positions shown are the
\* positions passed, and the payload is that script's restraints
SelectAgreesWithRun(r, i) ==
    LET sel == select_script(Scripts(r), Inputs(r), i)
        ran == run(Scripts(r), PositionVector(r, i))
    IN /\ ~sel.raised
       /\ Len(ran.calls) = 1
       /\ ran.calls[1].script = i
       /\ VisiblePositions(sel.out) = PassedPositions(ran.calls[1])
       /\ sel.out[Len(sel.out)].value
              = json_dumps(ui_restraints(Scripts(r)[ran.calls[1].script].cls).val)

\* C19: in a built session, for every selector i in 1..N, the positions
\* select_script(i) makes visible are exactly the positions whose values run
\* passes to the script it calls for selector i, and both resolve to the i-th
\* retained script.
C19_SelectAndRunAgree ==
    \A r \in Surfaces :
        Built(r) => \A i \in 1..NumScripts(r) : SelectAgreesWithRun(r, i)

\* C19 for the scripts whose ui_restraints() returns: the part of C19 the code
\* does satisfy.
C19_SelectAndRunAgreeWhenRestraintsReturn ==
    \A r \in Surfaces :
        Built(r) =>
            \A i \in 1..NumScripts(r) :
                ~ui_restraints(Scripts(r)[i].cls).raised => SelectAgreesWithRun(r, i)

-----------------------------------------------------------------------------
\* C20: a setup_ui call on one runner, returning or raising, leaves the other
\* runner's retained list, ranges and input vector and the registry scripts_data
\* as they were: the instances it creates and ranges are its own.
C20_SurfacesIndependent ==
    [][\A r, o \in Surfaces :
        (ret'.op = "setup_ui" /\ ret'.runner = r /\ o # r) =>
            /\ runners'[o] = runners[o]
            /\ scripts_data' = scripts_data]_vars

\* both sessions built, the second after the first, holding instances of one
\* registry entry with different ranges
C20_Witness ==
    /\ ret.op = "setup_ui"
    /\ Built("txt2img") /\ Built("img2img")
    /\ \E k \in 1..NumScripts("txt2img"), l \in 1..NumScripts("img2img") :
        /\ Scripts("txt2img")[k].filename = Scripts("img2img")[l].filename
        /\ Scripts("txt2img")[k].cls = Scripts("img2img")[l].cls
        /\ Scripts("txt2img")[k].args_to # Scripts("img2img")[l].args_to

====
